---- MODULE Spec2Model ----
(***************************************************************************)
(* Model of the dice game of src/game.js: the commit-reveal fair draw      *)
(* (FairRandomGenerator, Game.determineFirstMove, Game.fairThrow), the     *)
(* turn script (main, Game.start, selectDice, performThrow) and the        *)
(* probability engine (ProbabilityCalculator).                             *)
(*                                                                         *)
(* Conventions.                                                            *)
(*  - A JS string read from the terminal or from argv is a sequence of     *)
(*    one-character strings, so that parseInt / Number / toString are      *)
(*    modelled by what they do to the characters.                          *)
(*  - A JS value that may be a number, NaN or undefined is a record        *)
(*    [t, v] (Num, NaN, Undefined).                                        *)
(*  - crypto.createHmac(...).digest("hex") is modelled symbolically and    *)
(*    collision-free: the digest is the triple <<algorithm, key, message>>. *)
(*  - crypto.randomBytes(32) is assumed never to repeat a key: the key of  *)
(*    the n-th call is named n.                                            *)
(*  - The code between two awaits runs without interleaving; it is split   *)
(*    into one step per console.log / prompt so that the order of          *)
(*    publication is visible in the states.                                *)
(***************************************************************************)
EXTENDS Integers, Sequences, FiniteSets

(***************************************************************************)
(* Bounds of the model                                                     *)
(***************************************************************************)
\* help requests ('?') answered in one run
MaxHelp == 1
\* numbers typed at a prompt range over -MaxNegInput .. MaxInput
MaxInput == 6
MaxNegInput == 1
\* ranges given to fairThrow in the stand-alone draw: -MaxNegRange .. MaxRange
MaxRange == 3
MaxNegRange == 1
\* keys drawn by earlier calls of generateRandom (stand-alone draw)
MaxKeys == 2
\* face values of the dice given to calculateProbability: 0 .. MaxFace
MaxFace == 1
\* face values of the free dice of a table computed on its own: 0 .. MaxTableFace
MaxTableFace == 1

(***************************************************************************)
(* Program constants                                                       *)
(***************************************************************************)
NumFaces == 6
MinDice == 3
TotalOutcomes == 36
FixedDigits == 4
FirstMoveRange == 2
ThrowRange == 6

(***************************************************************************)
(* JS values                                                               *)
(***************************************************************************)
Num(n) == [t |-> "num", v |-> n]
NaN == [t |-> "nan", v |-> 0]
Undefined == [t |-> "undef", v |-> 0]

IsNum(x) == x.t = "num"

\* a + b on numbers: NaN is absorbing
JSAdd(a, b) == IF IsNum(a) /\ IsNum(b) THEN Num(a.v + b.v) ELSE NaN

\* a % n: the remainder takes the sign of the dividend; NaN % n and a % 0 are NaN
JSRem(a, n) ==
  IF ~IsNum(a) \/ n = 0 THEN NaN
  ELSE LET m == IF n < 0 THEN 0 - n ELSE n
       IN  IF a.v >= 0 THEN Num(a.v % m) ELSE Num(0 - ((0 - a.v) % m))

\* a === b on numbers: NaN equals nothing
JSStrictEq(a, b) == IsNum(a) /\ IsNum(b) /\ a.v = b.v

\* a > b: false as soon as one side is NaN or undefined
JSGreater(a, b) == IsNum(a) /\ IsNum(b) /\ a.v > b.v

(***************************************************************************)
(* Strings: toString, parseInt, Number                                     *)
(***************************************************************************)
DigitChars == <<"0", "1", "2", "3", "4", "5", "6", "7", "8", "9">>

IsDigit(ch) == \E d \in 1..10 : DigitChars[d] = ch

DigitVal(ch) == (CHOOSE d \in 1..10 : DigitChars[d] = ch) - 1

RECURSIVE NatToString(_)
NatToString(n) ==
  IF n < 10 THEN <<DigitChars[n + 1]>>
  ELSE NatToString(n \div 10) \o <<DigitChars[(n % 10) + 1]>>

\* Number.prototype.toString() of an integer
NumberToString(n) == IF n < 0 THEN <<"-">> \o NatToString(0 - n) ELSE NatToString(n)

\* the number of leading decimal digits of s
RECURSIVE DigitPrefixLen(_)
DigitPrefixLen(s) ==
  IF s = <<>> \/ ~IsDigit(Head(s)) THEN 0 ELSE 1 + DigitPrefixLen(Tail(s))

\* the value of the first n characters of s, all digits
RECURSIVE DigitsValue(_, _)
DigitsValue(s, n) ==
  IF n = 0 THEN 0 ELSE 10 * DigitsValue(s, n - 1) + DigitVal(s[n])

\* parseInt(s, 10): optional sign, then the longest prefix of digits; NaN when
\* there is none (the strings of the model hold no white space)
ParseInt(s) ==
  LET signed == s # <<>> /\ Head(s) \in {"-", "+"}
      body == IF signed THEN Tail(s) ELSE s
      n == DigitPrefixLen(body)
  IN  IF n = 0 THEN NaN
      ELSE IF signed /\ Head(s) = "-" THEN Num(0 - DigitsValue(body, n))
      ELSE Num(DigitsValue(body, n))

\* Number(s): the whole string must be a signed decimal integer; "" is 0
ToNumber(s) ==
  LET signed == s # <<>> /\ Head(s) \in {"-", "+"}
      body == IF signed THEN Tail(s) ELSE s
      n == DigitPrefixLen(body)
  IN  IF s = <<>> THEN Num(0)
      ELSE IF n = 0 \/ n # Len(body) THEN NaN
      ELSE IF Head(s) = "-" THEN Num(0 - DigitsValue(body, n))
      ELSE Num(DigitsValue(body, n))

\* ToIntegerOrInfinity of a string argument (Array.prototype.splice's start)
ToIntegerOrInfinity(s) == IF IsNum(ToNumber(s)) THEN ToNumber(s).v ELSE 0

(***************************************************************************)
(* Dice, InputParser                                                       *)
(***************************************************************************)
\* new Dice(faces): the faces must be exactly 6 integers
DiceValid(tokens) ==
  /\ Len(tokens) = NumFaces
  /\ \A i \in 1..Len(tokens) : IsNum(ToNumber(tokens[i]))

\* the faces of the Dice built from one argument, arg.split(",").map(Number)
DiceFaces(tokens) == [i \in 1..Len(tokens) |-> ToNumber(tokens[i]).v]

\* InputParser.parseDiceConfigs throws
ParseThrows(argv) ==
  \/ Len(argv) < MinDice
  \/ \E i \in 1..Len(argv) : ~DiceValid(argv[i])

\* InputParser.parseDiceConfigs returns
ParseDiceConfigs(argv) == [i \in 1..Len(argv) |-> DiceFaces(argv[i])]

\* Dice.roll(index): faces[index], undefined outside 0..5 and for NaN
Roll(faces, index) ==
  IF IsNum(index) /\ index.v >= 0 /\ index.v < Len(faces)
  THEN Num(faces[index.v + 1])
  ELSE Undefined

(***************************************************************************)
(* ProbabilityCalculator                                                   *)
(***************************************************************************)
\* a mutant of the inner loop: the comparison turned round (a < b)
RECURSIVE CountInnerSwapped(_, _, _)
CountInnerSwapped(a, diceB, j) ==
  IF j = 0 THEN 0
  ELSE CountInnerSwapped(a, diceB, j - 1) + (IF a < diceB[j] THEN 1 ELSE 0)

\* the inner loop of calculateProbability: the faces b of diceB[1..j] with a > b
RECURSIVE CountInner(_, _, _)
CountInner(a, diceB, j) ==
  IF j = 0 THEN 0
  ELSE CountInner(a, diceB, j - 1) + (IF a > diceB[j] THEN 1 ELSE 0)

\* the outer loop: count after the faces diceA[1..i]
RECURSIVE CountWins(_, _, _)
CountWins(diceA, diceB, i) ==
  IF i = 0 THEN 0
  ELSE CountWins(diceA, diceB, i - 1) + CountInner(diceA[i], diceB, Len(diceB))

RECURSIVE Pow10(_)
Pow10(k) == IF k = 0 THEN 1 ELSE 10 * Pow10(k - 1)

RECURSIVE PadZeros(_, _)
PadZeros(s, width) == IF Len(s) >= width THEN s ELSE PadZeros(<<"0">> \o s, width)

\* a mutant of toFixed: the digits after the last one cut off, not rounded
ToFixedTruncating(num, den, digits) ==
  LET n == (num * Pow10(digits)) \div den
  IN  NatToString(n \div Pow10(digits)) \o <<".">>
        \o PadZeros(NatToString(n % Pow10(digits)), digits)

\* (num / den).toFixed(digits) for num, den >= 0: the integer n nearest to
\* num * 10^digits / den, the larger one on a tie, written with a decimal point
ToFixed(num, den, digits) ==
  LET n == (2 * num * Pow10(digits) + den) \div (2 * den)
  IN  NatToString(n \div Pow10(digits)) \o <<".">>
        \o PadZeros(NatToString(n % Pow10(digits)), digits)

\* the position of the decimal point in s, 0 when there is none
RECURSIVE PointAt(_, _)
PointAt(s, i) == IF i > Len(s) THEN 0 ELSE IF s[i] = "." THEN i ELSE PointAt(s, i + 1)

\* Number(s) of a decimal "i.ffff" with FixedDigits fraction digits. The number is
\* kept in fixed point: the value returned is the number times 10^FixedDigits.
DecimalToNumber(s) ==
  LET p == PointAt(s, 1)
      int == SubSeq(s, 1, p - 1)
      frac == SubSeq(s, p + 1, Len(s))
  IN  DigitsValue(int, Len(int)) * Pow10(Len(frac)) + DigitsValue(frac, Len(frac))

\* a mutant of calculateProbability: ties counted as wins (a >= b)
RECURSIVE CountInnerTies(_, _, _)
CountInnerTies(a, diceB, j) ==
  IF j = 0 THEN 0
  ELSE CountInnerTies(a, diceB, j - 1) + (IF a >= diceB[j] THEN 1 ELSE 0)

RECURSIVE CountWinsTies(_, _, _)
CountWinsTies(diceA, diceB, i) ==
  IF i = 0 THEN 0
  ELSE CountWinsTies(diceA, diceB, i - 1)
         + CountInnerTies(diceA[i], diceB, Len(diceB))

CalculateProbabilityTies(diceA, diceB) ==
  DecimalToNumber(ToFixed(CountWinsTies(diceA, diceB, Len(diceA)),
                          TotalOutcomes, FixedDigits))

\* ProbabilityCalculator.calculateProbability, in units of 10^-FixedDigits
CalculateProbability(diceA, diceB) ==
  DecimalToNumber(ToFixed(CountWins(diceA, diceB, Len(diceA)),
                          TotalOutcomes, FixedDigits))

\* the label "- (0.3333)" of the diagonal, a string and not a number
SelfLabel == [t |-> "self", v |-> 3333]

\* a mutant of calculate: the diagonal computed like every other cell
CalculateNoLabel(diceSet) ==
  [i \in 1..Len(diceSet) |->
    [j \in 1..Len(diceSet) |->
      [t |-> "num", v |-> CalculateProbability(diceSet[i], diceSet[j])]]]

\* ProbabilityCalculator.calculate
Calculate(diceSet) ==
  [i \in 1..Len(diceSet) |->
    [j \in 1..Len(diceSet) |->
      IF i = j THEN SelfLabel
      ELSE [t |-> "num", v |-> CalculateProbability(diceSet[i], diceSet[j])]]]

\* ProbabilityCalculator.showResults: the table printed, from process.argv
ShowResults(argv) == Calculate(ParseDiceConfigs(argv))

(***************************************************************************)
(* FairRandomGenerator                                                     *)
(***************************************************************************)
\* crypto.createHmac(algorithm, key).update(message).digest("hex")
Hmac(algorithm, key, message) == <<algorithm, key, message>>

\* crypto.randomInt(min, max) throws ERR_OUT_OF_RANGE unless min < max
RandomIntThrows(min, max) == ~(min < max)

\* a mutant of randomInt: the upper end included
RandomIntInclusive(min, max) == min..max

\* crypto.randomInt(min, max): any integer n with min <= n < max
RandomInt(min, max) == min..(max - 1)

\* the object generateRandom returns for a key and a random value
Commitment(key, randomValue) ==
  [randomValue |-> randomValue,
   hmac |-> Hmac("sha3-256", key, NumberToString(randomValue)),
   key |-> key]

\* no commitment: the value of the frame's locals before generateRandom returns
NoCommit == [randomValue |-> 0 - 1, hmac |-> <<>>, key |-> 0]

\* a mutant of generateRandom: Math.floor(Math.random() * range) in place of
\* crypto.randomInt, which throws for no range
GenerateRandomUnchecked(rng, key) ==
  {[threw |-> FALSE, c |-> Commitment(key, n)] :
     n \in IF rng > 0 THEN 0..(rng - 1) ELSE rng..0}

\* FairRandomGenerator.generateRandom(range), the key being the one randomBytes
\* draws: it throws at crypto.randomInt, or returns one of these commitments
GenerateRandom(rng, key) ==
  IF RandomIntThrows(0, rng)
  THEN {[threw |-> TRUE, c |-> NoCommit]}
  ELSE {[threw |-> FALSE, c |-> Commitment(key, n)] : n \in RandomInt(0, rng)}

\* mutants of verifyHMAC: another hash; the key left out of the comparison
VerifyHMACOtherHash(value, key, hmac) ==
  hmac = Hmac("sha256", key, NumberToString(value))

VerifyHMACNoKey(value, key, hmac) ==
  hmac # <<>> /\ hmac[3] = NumberToString(value)

\* FairRandomGenerator.verifyHMAC
VerifyHMAC(value, key, hmac) ==
  hmac = Hmac("sha3-256", key, NumberToString(value))

(***************************************************************************)
(* Array.prototype.splice(start, 1) as selectDice uses it                  *)
(***************************************************************************)
\* the index (from 0) splice starts at: a negative start counts from the end
SpliceStart(len, start) ==
  LET r == ToIntegerOrInfinity(start)
  IN  IF r < 0 THEN (IF len + r < 0 THEN 0 ELSE len + r)
      ELSE (IF r > len THEN len ELSE r)

\* splice(start, 1)[0]: the element removed, undefined (<<>>) when there is none
SpliceTaken(seq, start) ==
  LET k == SpliceStart(Len(seq), start)
  IN  IF k < Len(seq) THEN seq[k + 1] ELSE <<>>

\* the array after splice(start, 1)
SpliceRest(seq, start) ==
  LET k == SpliceStart(Len(seq), start)
  IN  IF k < Len(seq) THEN SubSeq(seq, 1, k) \o SubSeq(seq, k + 2, Len(seq)) ELSE seq

(***************************************************************************)
(* What the terminal shows of a commitment                                 *)
(***************************************************************************)
\* a mutant of the announcement of fairThrow: the key printed with the digest
FTDigestLineLeaky(c) == {<<"hmac", c.hmac>>, <<"key", c.key>>}

\* fairThrow's "I selected a random value in the range 0..n (KEY=<hmac>)"
FTDigestLine(c) == {<<"hmac", c.hmac>>}

\* a mutant of the reveal: the key of the commitment generated before this one
FTRevealLineStaleKey(c) == {<<"randomValue", c.randomValue>>, <<"key", c.key - 1>>}

\* fairThrow's "My/Your number is <randomValue> (KEY=<key>)"
FTRevealLine(c) == {<<"randomValue", c.randomValue>>, <<"key", c.key>>}

\* determineFirstMove's "I selected a random value in the range 0..1 (KEY=<hmac>)"
FMDigestLine(c) == {<<"hmac", c.hmac>>}

\* determineFirstMove's "My selection: <computerChoice> (KEY=<key>)"
FMRevealLine(c) == {<<"randomValue", c.randomValue>>, <<"key", c.key>>}

(***************************************************************************)
(* Inputs                                                                  *)
(***************************************************************************)
\* the command line of the usage example, and a fourth die
ExampleDice == << <<2, 2, 4, 4, 9, 9>>, <<6, 8, 1, 1, 8, 6>>, <<7, 5, 3, 7, 5, 3>> >>
FourthDie == <<1, 1, 6, 6, 9, 9>>

\* one argument "f0,f1,...", split at the commas
ArgOf(faces) == [i \in 1..Len(faces) |-> NumberToString(faces[i])]
ArgsOf(dice) == [i \in 1..Len(dice) |-> ArgOf(dice[i])]

ExampleArgv == ArgsOf(ExampleDice)

\* the command lines of the model: the usage example; four dice; two dice; a
\* die of 5 faces ("7,5,3,7,5"); a face that is no number ("7,5,3,7,5,a"); a
\* face left empty ("7,5,3,7,5,")
Argvs ==
  { ExampleArgv,
    ArgsOf(Append(ExampleDice, FourthDie)),
    ArgsOf(SubSeq(ExampleDice, 1, 2)),
    ArgsOf(<<ExampleDice[1], ExampleDice[2], <<7, 5, 3, 7, 5>> >>),
    <<ExampleArgv[1], ExampleArgv[2], [ExampleArgv[3] EXCEPT ![6] = <<"a">>]>>,
    <<ExampleArgv[1], ExampleArgv[2], [ExampleArgv[3] EXCEPT ![6] = <<>>]>> }

\* the lines the user types
Inputs ==
  {NumberToString(n) : n \in (0 - MaxNegInput)..MaxInput}
    \cup {<<"a">>, <<"?">>, <<"x">>, <<"X">>}

(***************************************************************************)
(* State                                                                   *)
(***************************************************************************)
VARIABLES
  pc,            \* where the program is
  argv,          \* process.argv.slice(2), every argument split at its commas
  diceSet,       \* Game.diceSet
  firstMove,     \* Game.firstMove
  userDice,      \* start's userDice
  computerDice,  \* start's computerDice
  computerRoll,  \* performThrow's computerRoll
  userRoll,      \* performThrow's userRoll
  range,         \* fairThrow's range
  player,        \* fairThrow's player
  caller,        \* who awaits fairThrow: "performThrow" or "direct"
  cur,           \* {randomValue, hmac, key} of the running draw
  answer,        \* the line read by the last prompt
  result,        \* fairThrow's result
  published,     \* what the terminal has shown of cur
  history,       \* one entry per commitment generated: draw, key, state
  keysDrawn,     \* calls of crypto.randomBytes so far
  helps,         \* help requests so far
  outcome,       \* performThrow's announcement
  table,         \* the probability table last printed
  error,         \* the exception that ended the run
  verifyArgs,    \* the arguments of a direct call of verifyHMAC
  verifyResult,  \* what it returned
  diceA,         \* the arguments of a direct call of calculateProbability
  diceB,
  probability    \* what it returned

vars ==
  <<pc, argv, diceSet, firstMove, userDice, computerDice, computerRoll, userRoll,
    range, player, caller, cur, answer, result, published, history, keysDrawn,
    helps, outcome, table, error, verifyArgs, verifyResult, diceA, diceB,
    probability>>

gameVars == <<diceSet, firstMove, userDice, computerDice, computerRoll, userRoll, outcome>>
drawVars == <<range, player, caller, cur, answer, result, published, history, keysDrawn>>
directVars == <<verifyArgs, verifyResult, diceA, diceB, probability>>

\* the state of the commitment generated last
CurState == IF history = <<>> THEN "None" ELSE history[Len(history)].state

SetCurState(st) == [history EXCEPT ![Len(history)].state = st]

BlankGame ==
  /\ diceSet = <<>>
  /\ firstMove = "none"
  /\ userDice = <<>>
  /\ computerDice = <<>>
  /\ computerRoll = Undefined
  /\ userRoll = Undefined
  /\ outcome = "none"
  /\ table = <<>>
  /\ helps = 0
  /\ error = "none"

BlankDraw ==
  /\ cur = NoCommit
  /\ answer = <<>>
  /\ result = Undefined
  /\ published = {}
  /\ history = <<>>

BlankDirect ==
  /\ verifyArgs = <<>>
  /\ verifyResult = FALSE
  /\ diceA = <<>>
  /\ diceB = <<>>
  /\ probability = 0

\* node game.js <argv>
Init ==
  /\ pc = "main"
  /\ argv \in Argvs
  /\ range = 0
  /\ player = "none"
  /\ caller = "none"
  /\ keysDrawn = 0
  /\ BlankGame
  /\ BlankDraw
  /\ BlankDirect

(***************************************************************************)
(* main                                                                    *)
(***************************************************************************)
\* parseDiceConfigs throws: the catch block prints the usage and exits with 1
Main_Error ==
  /\ pc = "main"
  /\ ParseThrows(argv)
  /\ pc' = "exited"
  /\ error' = "Error"
  /\ UNCHANGED <<argv, gameVars, drawVars, helps, table, directVars>>

\* const diceSet = InputParser.parseDiceConfigs(args) returns
Main_Parse ==
  /\ pc = "main"
  /\ ~ParseThrows(argv)
  /\ diceSet' = ParseDiceConfigs(argv)
  /\ pc' = "main_show"
  /\ UNCHANGED <<argv, firstMove, userDice, computerDice, computerRoll, userRoll,
                 outcome, drawVars, helps, table, error, directVars>>

\* the table is shown, the game is built and started: start runs up to the
\* call of generateRandom in determineFirstMove
Main_Start ==
  /\ pc = "main_show"
  /\ table' = ShowResults(argv)
  /\ pc' = "fm_generate"
  /\ UNCHANGED <<argv, gameVars, drawVars, helps, error, directVars>>

(***************************************************************************)
(* Game.determineFirstMove                                                 *)
(***************************************************************************)
\* const { randomValue, hmac, key } = FairRandomGenerator.generateRandom(2)
FM_Generate ==
  /\ pc = "fm_generate"
  /\ \E o \in GenerateRandom(FirstMoveRange, keysDrawn + 1) :
       /\ ~o.threw
       /\ cur' = o.c
       /\ history' = Append(history,
                       [draw |-> "firstMove", key |-> o.c.key, state |-> "Generated"])
  /\ keysDrawn' = keysDrawn + 1
  /\ published' = {}
  /\ pc' = "fm_publish"
  /\ UNCHANGED <<argv, gameVars, range, player, caller, answer, result, helps,
                 table, error, directVars>>

\* console.log(`I selected a random value in the range 0..1 (KEY=${hmac}).`)
FM_PublishDigest ==
  /\ pc = "fm_publish"
  /\ published' = published \cup FMDigestLine(cur)
  /\ history' = SetCurState("Committed")
  /\ pc' = "fm_prompt"
  /\ UNCHANGED <<argv, gameVars, range, player, caller, cur, answer, result,
                 keysDrawn, helps, table, error, directVars>>

\* this.prompt("Try to guess my selection (0 or 1): ") is issued
FM_Prompt ==
  /\ pc = "fm_prompt"
  /\ pc' = "fm_await"
  /\ UNCHANGED <<argv, gameVars, drawVars, helps, table, error, directVars>>

\* the user's line resolves the prompt: userChoice
FM_Answer ==
  /\ pc = "fm_await"
  /\ \E line \in Inputs : answer' = line
  /\ history' = SetCurState("Contributed")
  /\ pc' = "fm_reveal"
  /\ UNCHANGED <<argv, gameVars, range, player, caller, cur, result, published,
                 keysDrawn, helps, table, error, directVars>>

\* console.log(`My selection: ${computerChoice} (KEY=${key}).`)
FM_Reveal ==
  /\ pc = "fm_reveal"
  /\ published' = published \cup FMRevealLine(cur)
  /\ history' = SetCurState("Revealed")
  /\ pc' = "fm_decide"
  /\ UNCHANGED <<argv, gameVars, range, player, caller, cur, answer, result,
                 keysDrawn, helps, table, error, directVars>>

\* parseInt(userChoice, 10) === computerChoice decides this.firstMove
FirstMoveOf(userChoice, computerChoice) ==
  IF JSStrictEq(ParseInt(userChoice), Num(computerChoice)) THEN "user" ELSE "computer"

FM_Decide ==
  /\ pc = "fm_decide"
  /\ firstMove' = FirstMoveOf(answer, cur.randomValue)
  /\ pc' = "sel_show"
  /\ UNCHANGED <<argv, diceSet, userDice, computerDice, computerRoll, userRoll,
                 outcome, drawVars, helps, table, error, directVars>>

(***************************************************************************)
(* Game.selectDice                                                         *)
(***************************************************************************)
\* the dice are listed and this.prompt("Your selection: ") is issued
Sel_Show ==
  /\ pc = "sel_show"
  /\ pc' = "sel_await"
  /\ UNCHANGED <<argv, gameVars, drawVars, helps, table, error, directVars>>

\* the user's line resolves the prompt: the user's die is spliced out, then the
\* computer's; performThrow starts and calls fairThrow(6, "computer")
Sel_Answer ==
  /\ pc = "sel_await"
  /\ \E line \in Inputs :
       /\ answer' = line
       /\ userDice' = SpliceTaken(diceSet, line)
       /\ computerDice' = SpliceTaken(SpliceRest(diceSet, line), <<"0">>)
       /\ diceSet' = SpliceRest(SpliceRest(diceSet, line), <<"0">>)
  /\ range' = ThrowRange
  /\ player' = "computer"
  /\ caller' = "performThrow"
  /\ pc' = "ft_generate"
  /\ UNCHANGED <<argv, firstMove, computerRoll, userRoll, outcome, cur, result,
                 published, history, keysDrawn, helps, table, error, directVars>>

(***************************************************************************)
(* Game.fairThrow(range, player)                                           *)
(***************************************************************************)
\* the name of the logical draw a fairThrow frame belongs to
DrawName == IF player = "computer" THEN "computerThrow" ELSE "userThrow"

\* const { randomValue, hmac, key } = FairRandomGenerator.generateRandom(range)
FT_Generate ==
  /\ pc = "ft_generate"
  /\ \E o \in GenerateRandom(range, keysDrawn + 1) :
       /\ ~o.threw
       /\ cur' = o.c
       /\ history' = Append(history,
                       [draw |-> DrawName, key |-> o.c.key, state |-> "Generated"])
  /\ keysDrawn' = keysDrawn + 1
  /\ published' = {}
  /\ pc' = "ft_publish"
  /\ UNCHANGED <<argv, gameVars, range, player, caller, answer, result, helps,
                 table, error, directVars>>

\* generateRandom throws at crypto.randomInt, the key already drawn: the promise
\* of fairThrow is rejected and nothing was printed
FT_GenerateThrows ==
  /\ pc = "ft_generate"
  /\ \E o \in GenerateRandom(range, keysDrawn + 1) : o.threw
  /\ keysDrawn' = keysDrawn + 1
  /\ error' = "ERR_OUT_OF_RANGE"
  /\ pc' = "rejected"
  /\ UNCHANGED <<argv, gameVars, range, player, caller, cur, answer, result,
                 published, history, helps, table, directVars>>

\* console.log(`I selected a random value in the range 0..${range - 1} (KEY=${hmac}) ...`)
FT_PublishDigest ==
  /\ pc = "ft_publish"
  /\ published' = published \cup FTDigestLine(cur)
  /\ history' = SetCurState("Committed")
  /\ pc' = "ft_prompt"
  /\ UNCHANGED <<argv, gameVars, range, player, caller, cur, answer, result,
                 keysDrawn, helps, table, error, directVars>>

\* this.prompt(`Add your number modulo ${range}: `) is issued
FT_Prompt ==
  /\ pc = "ft_prompt"
  /\ pc' = "ft_await"
  /\ UNCHANGED <<argv, gameVars, drawVars, helps, table, error, directVars>>

\* the user's line resolves the prompt: userNumber. Help is asked for at most
\* MaxHelp times.
FT_Answer ==
  /\ pc = "ft_await"
  /\ \E line \in Inputs :
       /\ line = <<"?">> => helps < MaxHelp
       /\ answer' = line
  /\ history' = SetCurState("Contributed")
  /\ pc' = "ft_dispatch"
  /\ UNCHANGED <<argv, gameVars, range, player, caller, cur, result, published,
                 keysDrawn, helps, table, error, directVars>>

\* userNumber is "x" or "X": process.exit(1)
FT_Exit ==
  /\ pc = "ft_dispatch"
  /\ answer \in {<<"x">>, <<"X">>}
  /\ history' = SetCurState("Abandoned")
  /\ pc' = "exited"
  /\ UNCHANGED <<argv, gameVars, range, player, caller, cur, answer, result,
                 published, keysDrawn, helps, table, error, directVars>>

\* a mutant of the help branch: showResults parses into the game's own dice set,
\* which gets the dice already taken back
FT_HelpSharedDice ==
  /\ pc = "ft_dispatch"
  /\ answer = <<"?">>
  /\ diceSet' = ParseDiceConfigs(argv)
  /\ table' = ShowResults(argv)
  /\ helps' = helps + 1
  /\ history' = SetCurState("Abandoned")
  /\ pc' = "ft_generate"
  /\ UNCHANGED <<argv, firstMove, userDice, computerDice, computerRoll, userRoll,
                 outcome, range, player, caller, cur, answer, result, published,
                 keysDrawn, error, directVars>>

\* userNumber is "?": the table is shown and fairThrow calls itself, the new
\* frame with the same range and player and its own commitment
FT_Help ==
  /\ pc = "ft_dispatch"
  /\ answer = <<"?">>
  /\ table' = ShowResults(argv)
  /\ helps' = helps + 1
  /\ history' = SetCurState("Abandoned")
  /\ pc' = "ft_generate"
  /\ UNCHANGED <<argv, gameVars, range, player, caller, cur, answer, result,
                 published, keysDrawn, error, directVars>>

\* a mutant of the result: the random value left out
FairResultNoRandom(randomValue, userNumber, rng) == JSRem(ParseInt(userNumber), rng)

\* (randomValue + parseInt(userNumber, 10)) % range
FairResult(randomValue, userNumber, rng) ==
  JSRem(JSAdd(Num(randomValue), ParseInt(userNumber)), rng)

\* const result = ...; console.log(`... number is ${randomValue} (KEY=${key}).`)
FT_Reveal ==
  /\ pc = "ft_dispatch"
  /\ answer \notin {<<"x">>, <<"X">>, <<"?">>}
  /\ result' = FairResult(cur.randomValue, answer, range)
  /\ published' = published \cup FTRevealLine(cur)
  /\ history' = SetCurState("Revealed")
  /\ pc' = "ft_result"
  /\ UNCHANGED <<argv, gameVars, range, player, caller, cur, answer, keysDrawn,
                 helps, table, error, directVars>>

\* console.log(`The result is ...`); return result. In performThrow the
\* computer's roll is followed by fairThrow(6, "user"), the user's by the
\* announcement.
FT_Return ==
  /\ pc = "ft_result"
  /\ IF caller = "direct"
       THEN /\ pc' = "returned"
            /\ UNCHANGED <<computerRoll, userRoll, player>>
       ELSE IF player = "computer"
       THEN /\ computerRoll' = result
            /\ player' = "user"
            /\ pc' = "ft_generate"
            /\ UNCHANGED userRoll
       ELSE /\ userRoll' = result
            /\ pc' = "pt_announce"
            /\ UNCHANGED <<computerRoll, player>>
  /\ UNCHANGED <<argv, diceSet, firstMove, userDice, computerDice, outcome, range,
                 caller, cur, answer, result, published, history, keysDrawn, helps,
                 table, error, directVars>>

(***************************************************************************)
(* Game.performThrow, after the two throws; Game.start's rl.close()        *)
(***************************************************************************)
\* a mutant of the announcement: the two faces exchanged
AnnounceExchanged(computerFace, userFace) ==
  IF JSGreater(userFace, computerFace) THEN "I win!"
  ELSE IF JSGreater(computerFace, userFace) THEN "You win!"
  ELSE "It's a draw!"

\* the announcement for the two faces thrown
Announce(computerFace, userFace) ==
  IF JSGreater(computerFace, userFace) THEN "I win!"
  ELSE IF JSGreater(userFace, computerFace) THEN "You win!"
  ELSE "It's a draw!"

\* the throws are printed, the outcome announced, the input closed
PT_Announce ==
  /\ pc = "pt_announce"
  /\ userDice # <<>>
  /\ outcome' = Announce(Roll(computerDice, computerRoll), Roll(userDice, userRoll))
  /\ pc' = "closed"
  /\ UNCHANGED <<argv, diceSet, firstMove, userDice, computerDice, computerRoll,
                 userRoll, drawVars, helps, table, error, directVars>>

\* userDice is undefined (the selection removed nothing): userDice.roll throws a
\* TypeError, the promise of start is rejected and nobody handles it
PT_Crash ==
  /\ pc = "pt_announce"
  /\ userDice = <<>>
  /\ error' = "TypeError"
  /\ pc' = "crashed"
  /\ UNCHANGED <<argv, gameVars, drawVars, helps, table, directVars>>

Next ==
  \/ Main_Error
  \/ Main_Parse
  \/ Main_Start
  \/ FM_Generate
  \/ FM_PublishDigest
  \/ FM_Prompt
  \/ FM_Answer
  \/ FM_Reveal
  \/ FM_Decide
  \/ Sel_Show
  \/ Sel_Answer
  \/ FT_Generate
  \/ FT_PublishDigest
  \/ FT_Prompt
  \/ FT_Answer
  \/ FT_Exit
  \/ FT_Help
  \/ FT_Reveal
  \/ FT_Return
  \/ PT_Announce
  \/ PT_Crash

Spec == Init /\ [][Next]_vars

(***************************************************************************)
(* A draw on its own: fairThrow(range, player) called directly on a game   *)
(* built from the example command line, for any range; then verifyHMAC     *)
(* called on the values the draw published, at most one of them changed    *)
(***************************************************************************)
DrawRanges == (0 - MaxNegRange)..MaxRange

\* the keys, values and digests a caller of verifyHMAC may present
VerifyKeys == 1..(MaxKeys + MaxHelp + 2)
VerifyValues == 0..MaxRange
VerifyDigests ==
  {Hmac("sha3-256", k, NumberToString(n)) : k \in VerifyKeys, n \in VerifyValues}

DrawInit ==
  /\ pc = "ft_generate"
  /\ argv = ExampleArgv
  /\ range \in DrawRanges
  /\ player \in {"computer", "user"}
  /\ caller = "direct"
  /\ keysDrawn \in 0..MaxKeys
  /\ BlankGame
  /\ BlankDraw
  /\ BlankDirect

\* FairRandomGenerator.verifyHMAC(value, key, hmac) on the published triple or
\* on the triple with one component replaced
Verify_Call ==
  /\ pc = "returned"
  /\ \E value \in VerifyValues, key \in VerifyKeys, hmac \in VerifyDigests :
       /\ Cardinality({i \in 1..3 :
             <<value, key, hmac>>[i] # <<cur.randomValue, cur.key, cur.hmac>>[i]}) <= 1
       /\ verifyArgs' = <<value, key, hmac>>
       /\ verifyResult' = VerifyHMAC(value, key, hmac)
  /\ pc' = "verified"
  /\ UNCHANGED <<argv, gameVars, drawVars, helps, table, error, diceA, diceB,
                 probability>>

DrawNext ==
  \/ FT_Generate
  \/ FT_GenerateThrows
  \/ FT_PublishDigest
  \/ FT_Prompt
  \/ FT_Answer
  \/ FT_Exit
  \/ FT_Help
  \/ FT_Reveal
  \/ FT_Return
  \/ Verify_Call

SpecDraw == DrawInit /\ [][DrawNext]_vars

(***************************************************************************)
(* calculateProbability on its own, for any two dice of 6 faces            *)
(***************************************************************************)
FaceValues == 0..MaxFace

\* the dice of the usage example and the fourth die
KnownDice == {ExampleDice[i] : i \in 1..Len(ExampleDice)} \cup {FourthDie}

\* the dice calculateProbability is called on
ProbDice == [1..NumFaces -> FaceValues] \cup KnownDice

ProbInit ==
  /\ pc = "prob_call"
  /\ argv = ExampleArgv
  /\ range = 0
  /\ player = "none"
  /\ caller = "direct"
  /\ keysDrawn = 0
  /\ BlankGame
  /\ BlankDraw
  /\ verifyArgs = <<>>
  /\ verifyResult = FALSE
  /\ diceA \in ProbDice
  /\ diceB \in ProbDice
  /\ probability = 0

\* ProbabilityCalculator.calculateProbability(diceA, diceB)
Prob_Call ==
  /\ pc = "prob_call"
  /\ probability' = CalculateProbability(diceA, diceB)
  /\ pc' = "prob_returned"
  /\ UNCHANGED <<argv, gameVars, drawVars, helps, table, error, verifyArgs,
                 verifyResult, diceA, diceB>>

ProbNext == Prob_Call

SpecProb == ProbInit /\ [][ProbNext]_vars

(***************************************************************************)
(* The probability table on its own: showResults for a command line of     *)
(* three or four dice. The first two dice are free (any die of the usage   *)
(* example, or any die with faces 0..MaxTableFace in ascending order; the   *)
(* order of the faces of two dice is covered by SpecProb), the others are  *)
(* taken from the usage example.                                           *)
(***************************************************************************)
AscendingDice ==
  {d \in [1..NumFaces -> 0..MaxTableFace] :
     \A i \in 1..(NumFaces - 1) : d[i] <= d[i + 1]}

TableDice == KnownDice \cup AscendingDice

TableDiceSets ==
  {<<a, b, c>> : a \in TableDice, b \in TableDice, c \in KnownDice}
    \cup {<<a, b, c, FourthDie>> : a \in TableDice, b \in TableDice, c \in KnownDice}

TableInit ==
  /\ pc = "table_call"
  /\ argv \in {ArgsOf(ds) : ds \in TableDiceSets}
  /\ range = 0
  /\ player = "none"
  /\ caller = "direct"
  /\ keysDrawn = 0
  /\ BlankGame
  /\ BlankDraw
  /\ BlankDirect

\* ProbabilityCalculator.showResults()
Table_Call ==
  /\ pc = "table_call"
  /\ table' = ShowResults(argv)
  /\ pc' = "table_returned"
  /\ UNCHANGED <<argv, gameVars, drawVars, helps, error, directVars>>

TableNext == Table_Call

SpecTable == TableInit /\ [][TableNext]_vars

(***************************************************************************)
(* Properties                                                              *)
(***************************************************************************)
\* the contribution to the commitment generated last has not been received
ContributionPending == CurState \in {"Generated", "Committed"}

\* a prompt for a contribution is open
Prompted == pc \in {"fm_await", "ft_await"}

\* the secret part of cur that the terminal has shown
SecretsShown == {item \in published : item[1] \in {"key", "randomValue"}}

\* C1: in every fair draw the digest is on the terminal when the contribution
\* is prompted for, and the key and the random value are shown only once the
\* contribution has been received: while it is pending (and after the draw is
\* abandoned by a help request or an exit) none of them has been shown.
C1_DigestThenContributionThenReveal ==
  /\ Prompted => <<"hmac", cur.hmac>> \in published
  /\ (ContributionPending \/ CurState = "Abandoned") => SecretsShown = {}
  /\ SecretsShown # {} =>
       /\ CurState = "Revealed"
       /\ answer \in Inputs
       /\ <<"hmac", cur.hmac>> \in published

C1_Witness ==
  /\ pc = "ft_result"
  /\ player = "user"
  /\ helps = 1
  /\ published = {<<"hmac", cur.hmac>>, <<"key", cur.key>>,
                  <<"randomValue", cur.randomValue>>}

\* C2: verifyHMAC returns true on every triple (randomValue, key, hmac) that
\* generateRandom(range) returned, for every range >= 1.
C2_GeneratedVerifies ==
  (pc = "verified" /\ verifyArgs = <<cur.randomValue, cur.key, cur.hmac>>)
    => verifyResult = TRUE

C2_Witness ==
  /\ pc = "verified"
  /\ range = MaxRange
  /\ verifyArgs = <<cur.randomValue, cur.key, cur.hmac>>
  /\ verifyResult = TRUE

\* C3: verifyHMAC returns false on every triple that differs from a generated
\* one in exactly one of value, key and digest (the MAC being collision-free).
C3_TamperedRejected ==
  (pc = "verified" /\ verifyArgs # <<cur.randomValue, cur.key, cur.hmac>>)
    => verifyResult = FALSE

C3_Witness ==
  /\ pc = "verified"
  /\ verifyArgs[1] = cur.randomValue
  /\ verifyArgs[2] # cur.key
  /\ verifyArgs[3] = cur.hmac
  /\ verifyResult = FALSE

\* C4: every draw that was revealed goes on to Verified or VerificationFailed:
\* when the game has closed its input no commitment is left in state Revealed.
C4_RevealedGetsVerified ==
  pc = "closed" =>
    \A i \in 1..Len(history) :
      history[i].state \in {"Verified", "VerificationFailed", "Abandoned"}

\* C5: one logical draw (first move, computer's throw, user's throw) has at
\* most one commitment generated for it, whatever the user types.
C5_OneCommitmentPerDraw ==
  \A d \in {"firstMove", "computerThrow", "userThrow"} :
    Cardinality({i \in 1..Len(history) : history[i].draw = d}) <= 1

\* C6: a contribution combined into a result of fairThrow is the decimal form
\* of an integer of [0, range), and so is the guess determineFirstMove accepts.
C6_ContributionInRange ==
  /\ pc = "ft_result" => answer \in {NumberToString(n) : n \in 0..(range - 1)}
  /\ pc = "fm_decide" =>
       answer \in {NumberToString(n) : n \in 0..(FirstMoveRange - 1)}

\* C7: for a range >= 1 and a contribution c >= 0 typed in decimal, fairThrow
\* returns (randomValue + c) mod range, a value of [0, range); it is 0 when the
\* range is 1; and by then digest, key and random value have all been shown.
C7_ResultIsSumModRange ==
  (pc \in {"ft_result", "returned"} /\ range >= 1) =>
    \A c \in 0..MaxInput :
      answer = NumberToString(c) =>
        /\ result = Num((cur.randomValue + c) % range)
        /\ result.v \in 0..(range - 1)
        /\ range = 1 => result = Num(0)
        /\ published = {<<"hmac", cur.hmac>>, <<"key", cur.key>>,
                        <<"randomValue", cur.randomValue>>}
        /\ CurState = "Revealed"

C7_Witness ==
  /\ pc = "returned"
  /\ range = 3
  /\ cur.randomValue = 2
  /\ answer = <<"5">>
  /\ result = Num(1)

\* C8: the random value of a commitment returned by generateRandom(range),
\* range >= 1, is an integer of [0, range).
C8_RandomValueInRange ==
  cur # NoCommit => (range >= 1 /\ cur.randomValue \in 0..(range - 1))

C8_Witness ==
  /\ pc = "ft_publish"
  /\ range = MaxRange
  /\ cur.randomValue = range - 1

\* C9: generateRandom(range) with range <= 0 fails with a range error and no
\* commitment comes back: nothing is there to publish.
C9_BadRangeThrows ==
  range <= 0 =>
    /\ cur = NoCommit
    /\ published = {}
    /\ history = <<>>
    /\ pc \in {"ft_generate", "rejected"}
    /\ pc = "rejected" => error = "ERR_OUT_OF_RANGE"

C9_Witness ==
  /\ pc = "rejected"
  /\ range = 0
  /\ error = "ERR_OUT_OF_RANGE"
  /\ cur = NoCommit

\* the pairs of faces (a of diceA, b of diceB) with a > b
WinPairs(dA, dB) == {p \in (1..Len(dA)) \X (1..Len(dB)) : dA[p[1]] > dB[p[2]]}

\* C10: calculateProbability(A, B) is N/36 rounded to 4 decimals (in units of
\* 10^-4: the integer nearest to N * 10^4 / 36), N the number of the 36 face
\* pairs with a strictly greater than b; equal faces count for neither die.
C10_ProbabilityIsRoundedCount ==
  pc = "prob_returned" =>
    LET N == Cardinality(WinPairs(diceA, diceB))
        d == 2 * (TotalOutcomes * probability - N * 10000)
    IN  /\ 0 - TotalOutcomes < d
        /\ d <= TotalOutcomes

C10_Witness ==
  /\ pc = "prob_returned"
  /\ diceA = <<0, 0, 0, 0, 0, 1>>
  /\ diceB = <<1, 1, 1, 1, 1, 0>>
  /\ probability = 278

\* the pairs of faces (a of dA, b of dB) with a = b
TiePairs(dA, dB) == {p \in (1..Len(dA)) \X (1..Len(dB)) : dA[p[1]] = dB[p[2]]}

\* the dice the table was computed from
TableDiceSet == ParseDiceConfigs(argv)

\* C11: for distinct dice i, j of the table, matrix[i][j] + matrix[j][i] is 1
\* (10^4 in units of 10^-4) when the two dice share no face value and strictly
\* less when they share one; in counts, wins(i,j) + wins(j,i) = 36 - ties.
C11_SumIsOneUnlessTies ==
  pc = "table_returned" =>
    \A i, j \in 1..Len(table) :
      i # j =>
        LET dI == TableDiceSet[i]
            dJ == TableDiceSet[j]
            sum == table[i][j].v + table[j][i].v
        IN  /\ TiePairs(dI, dJ) = {} => sum = 10000
            /\ TiePairs(dI, dJ) # {} => sum < 10000
            /\ CountWins(dI, dJ, Len(dI)) + CountWins(dJ, dI, Len(dJ))
                 = TotalOutcomes - Cardinality(TiePairs(dI, dJ))

C11_Witness ==
  /\ pc = "table_returned"
  /\ TableDiceSet = << <<0, 0, 1, 1, 1, 1>>, <<6, 8, 1, 1, 8, 6>>, <<7, 5, 3, 7, 5, 3>> >>
  /\ table[1][2].v + table[2][1].v < 10000
  /\ table[2][3].v + table[3][2].v = 10000

\* C12: calculate returns an n-by-n matrix for n dice; every diagonal entry is
\* the fixed label 0.3333 (not the pairwise formula, which gives 0 for a die
\* against itself) and every other entry [i][j] is the rounded share of the
\* face pairs won by die i over die j, a value of [0, 1].
C12_MatrixShape ==
  pc = "table_returned" =>
    /\ Len(table) = Len(TableDiceSet)
    /\ \A i \in 1..Len(table) :
         /\ Len(table[i]) = Len(TableDiceSet)
         /\ table[i][i] = SelfLabel
         /\ \A j \in 1..Len(table) :
              i # j =>
                LET N == Cardinality(WinPairs(TableDiceSet[i], TableDiceSet[j]))
                    d == 2 * (TotalOutcomes * table[i][j].v - N * 10000)
                IN  /\ table[i][j].t = "num"
                    /\ table[i][j].v \in 0..10000
                    /\ 0 - TotalOutcomes < d
                    /\ d <= TotalOutcomes

C12_Witness ==
  /\ pc = "table_returned"
  /\ TableDiceSet = Append(ExampleDice, FourthDie)
  /\ \A i \in 1..4 : table[i][i] = SelfLabel
  /\ table[1][2].v = 5556
  /\ table[2][1].v = 4444

\* C13, as stated: calculateProbability([2,2,4,4,9,9], [6,8,1,1,8,6]) is 0.4444.
C13_ExampleIsPoint4444 ==
  (pc = "prob_returned" /\ diceA = ExampleDice[1] /\ diceB = ExampleDice[2])
    => probability = 4444

\* C13, amended: calculateProbability([2,2,4,4,9,9], [6,8,1,1,8,6]) is 0.5556,
\* the 20 of the 36 face pairs with a > b counted one by one and rounded to 4
\* decimals; 0.4444 (16 pairs) is the value with the two dice exchanged.
C13_ExampleIsPoint5556 ==
  /\ (pc = "prob_returned" /\ diceA = ExampleDice[1] /\ diceB = ExampleDice[2])
       => /\ probability = 5556
          /\ Cardinality(WinPairs(diceA, diceB)) = 20
          /\ TiePairs(diceA, diceB) = {}
  /\ (pc = "prob_returned" /\ diceA = ExampleDice[2] /\ diceB = ExampleDice[1])
       => /\ probability = 4444
          /\ Cardinality(WinPairs(diceA, diceB)) = 16

C13_Witness ==
  /\ pc = "prob_returned"
  /\ diceA = <<2, 2, 4, 4, 9, 9>>
  /\ diceB = <<6, 8, 1, 1, 8, 6>>
  /\ probability = 5556

\* a token written as an integer: an optional sign, then digits and nothing else
IsIntegerText(token) ==
  LET body == IF token # <<>> /\ Head(token) \in {"-", "+"} THEN Tail(token) ELSE token
  IN  body # <<>> /\ \A i \in 1..Len(body) : IsDigit(body[i])

\* a command line of at least 3 dice, each of exactly 6 integer faces
WellFormed(args) ==
  /\ Len(args) >= MinDice
  /\ \A i \in 1..Len(args) :
       /\ Len(args[i]) = NumFaces
       /\ \A k \in 1..Len(args[i]) : IsIntegerText(args[i][k])

\* C14: with fewer than 3 dice, or a die that has not exactly 6 integer faces,
\* startup ends in the configuration error and nothing later happens: no table
\* is computed, no commitment generated, no prompt issued.
C14_BadConfigStopsAtStartup ==
  ~WellFormed(argv) =>
    /\ pc \in {"main", "exited"}
    /\ pc = "exited" => error = "Error"
    /\ table = <<>>
    /\ diceSet = <<>>
    /\ history = <<>>
    /\ keysDrawn = 0

\* a step that shows the probability table: at startup or on a help request
ShowsTable == table' # table \/ helps' # helps

\* C15: a step that computes and shows the probability table leaves the dice
\* set, the dice each party took, the first-move outcome and the results of
\* the draws already completed as they were.
C15_TableLeavesGameAlone ==
  [][ShowsTable =>
       UNCHANGED <<diceSet, userDice, computerDice, firstMove, computerRoll,
                   userRoll>>]_vars

C15_Witness ==
  /\ pc = "ft_generate"
  /\ helps = 1
  /\ player = "user"
  /\ IsNum(computerRoll)
  /\ userDice # <<>>
  /\ Len(diceSet) = Len(argv) - 2
  /\ table = ShowResults(argv)

\* the dice parsed from the command line, before any die is taken
OriginalDice == ParseDiceConfigs(argv)

\* seq without its entries at the positions i and j
Without(seq, i, j) ==
  LET keep == {k \in 1..Len(seq) : k # i /\ k # j}
      nth(n) == CHOOSE k \in keep : Cardinality({m \in keep : m < k}) = n - 1
  IN  [n \in 1..Cardinality(keep) |-> seq[nth(n)]]

\* selectDice has just returned: the first fairThrow is about to start
JustSelected == pc = "ft_generate" /\ Len(history) = 1

\* C16: whatever the user types at "Your selection: ", after selectDice the
\* user and the computer own one die each, two different entries of the
\* original dice set, the user's the one at the index typed, and the dice
\* set holds the other dice in their original order.
C16_SelectionTakesTwoDice ==
  JustSelected =>
    \E i, j \in 1..Len(OriginalDice) :
      /\ i # j
      /\ answer = NumberToString(i - 1)
      /\ userDice = OriginalDice[i]
      /\ computerDice = OriginalDice[j]
      /\ diceSet = Without(OriginalDice, i, j)

\* the values the terminal has shown under a tag
Shown(tag) == {item[2] : item \in {x \in published : x[1] = tag}}

\* the keys of the commitments dropped by a help request or an exit
AbandonedKeys ==
  {history[i].key : i \in {k \in 1..Len(history) : history[k].state = "Abandoned"}}

\* C17: the key and the random value shown at a reveal are those of the
\* commitment generated last, the one whose digest is on the terminal (also
\* after help requests): verifyHMAC accepts the three values shown. No key of
\* a commitment dropped by a help request or an exit is shown, and the result
\* is computed from the random value shown.
C17_RevealMatchesLastDigest ==
  /\ Shown("key") \cap AbandonedKeys = {}
  /\ SecretsShown # {} =>
       /\ Cardinality(published) = 3
       /\ \A h \in Shown("hmac"), k \in Shown("key"), n \in Shown("randomValue") :
            /\ VerifyHMAC(n, k, h)
            /\ k = history[Len(history)].key
            /\ k = keysDrawn
            /\ pc = "ft_result" =>
                 result = JSRem(JSAdd(Num(n), ParseInt(answer)), range)

C17_Witness ==
  /\ pc = "ft_result"
  /\ player = "computer"
  /\ Len(history) = 3
  /\ history[2].state = "Abandoned"
  /\ Shown("key") = {3}

\* C18: firstMove is "user" exactly when the guess is the committed value, and
\* when it is "computer" the computer has taken its die by the time the user
\* is asked to choose (when it is "user", the user is asked first).
C18_FirstMoveDecidesOrder ==
  /\ pc = "sel_show" =>
       (firstMove = "user" <=> answer = NumberToString(cur.randomValue))
  /\ pc = "sel_await" =>
       /\ firstMove = "computer" => computerDice # <<>>
       /\ firstMove = "user" => computerDice = <<>>

\* the commitments of the two throws that were revealed
ThrowsCompleted ==
  {i \in 1..Len(history) :
     history[i].draw \in {"computerThrow", "userThrow"} /\ history[i].state = "Revealed"}

\* C19: the phases run in the order first move, selection, computer's throw,
\* user's throw, announcement, close, each after the one before is complete;
\* and a run in which the user answers every prompt and never exits ends
\* closed, with exactly two throws completed: none ends by an exception
\* thrown out of performThrow.
C19_PhasesInOrderToClose ==
  /\ pc \in {"sel_show", "sel_await"} => (firstMove # "none" /\ player = "none")
  /\ player # "none" => (firstMove # "none" /\ computerDice # <<>>)
  /\ player = "user" => (IsNum(computerRoll) \/ computerRoll = NaN)
  /\ pc \in {"pt_announce", "closed"} =>
       (player = "user" /\ Cardinality(ThrowsCompleted) = 2)
  /\ outcome # "none" <=> pc = "closed"
  /\ pc # "crashed"

\* C20: for dice selected and throw results in [0, 6), performThrow announces
\* one outcome: the computer wins iff its face, the one of its die at the index
\* of its own throw, is greater than the user's, the user wins iff smaller, a
\* draw iff equal.
C20_OutcomeComparesOwnFaces ==
  (/\ pc = "closed"
   /\ userDice # <<>>
   /\ IsNum(computerRoll) /\ computerRoll.v \in 0..(ThrowRange - 1)
   /\ IsNum(userRoll) /\ userRoll.v \in 0..(ThrowRange - 1)) =>
    LET computerFace == computerDice[computerRoll.v + 1]
        userFace == userDice[userRoll.v + 1]
    IN  /\ outcome \in {"I win!", "You win!", "It's a draw!"}
        /\ outcome = "I win!" <=> computerFace > userFace
        /\ outcome = "You win!" <=> computerFace < userFace
        /\ outcome = "It's a draw!" <=> computerFace = userFace

C20_Witness ==
  /\ pc = "closed"
  /\ userDice = FourthDie
  /\ computerDice = ExampleDice[1]
  /\ computerRoll = Num(5)
  /\ userRoll = Num(4)
  /\ outcome = "It's a draw!"

====
